---- MODULE Spec2Model ----
(***************************************************************************)
(* Model of searxng.py: the SearchParameters configuration object          *)
(* (constructor, update, as_dict), the SearXNG client (constructor,        *)
(* parse_api_json, search) and the HTTP transport the client talks to.     *)
(*                                                                         *)
(* Python values that cross a dynamically typed boundary (keyword          *)
(* arguments that may be None, JSON values) are records tagged with their  *)
(* Python type in field t.  Python str is a TLA+ string, list a sequence,  *)
(* dict a function whose DOMAIN is the key set.  A float is held in        *)
(* tenths (v = 15 is 1.5).                                                 *)
(***************************************************************************)
EXTENDS Integers, Sequences, FiniteSets, TLC

(***************************************************************************)
(* Bounds of the model.                                                    *)
(***************************************************************************)
MaxPages   == 3   \* largest n_pages passed to search
MaxClients == 2   \* SearXNG objects constructed
MaxParams  == 2   \* SearchParameters objects on the heap (the first is the
                  \* default-argument object of SearXNG.__init__)
MaxArgs    == 1   \* keyword arguments given to one constructor/update call
                  \* in SpecParams
MaxResults == 3   \* length of the results array given to parse_api_json
                  \* in SpecParse

(***************************************************************************)
(* Python builtins used by the code.                                       *)
(***************************************************************************)
None == [t |-> "None"]
PyStr(s)   == [t |-> "str",   v |-> s]
PyInt(n)   == [t |-> "int",   v |-> n]
PyFloat(n) == [t |-> "float", v |-> n]      \* n in tenths
PyBool(b)  == [t |-> "bool",  v |-> b]
PyList(l)  == [t |-> "list",  v |-> l]

Digit(d) == CASE d = 0 -> "0" [] d = 1 -> "1" [] d = 2 -> "2" [] d = 3 -> "3"
              [] d = 4 -> "4" [] d = 5 -> "5" [] d = 6 -> "6" [] d = 7 -> "7"
              [] d = 8 -> "8" [] d = 9 -> "9"

RECURSIVE NatToStr(_)
NatToStr(n) == IF n < 10 THEN Digit(n) ELSE NatToStr(n \div 10) \o Digit(n % 10)

\* str(int)
IntToStr(n) == IF n < 0 THEN "-" \o NatToStr(0 - n) ELSE NatToStr(n)

\* str(bool)
BoolToStr(b) == IF b THEN "True" ELSE "False"

\* sep.join(list)
RECURSIVE Join(_, _)
Join(sep, l) ==
    IF l = <<>> THEN ""
    ELSE IF Len(l) = 1 THEN l[1]
    ELSE l[1] \o sep \o Join(sep, Tail(l))

\* dict.update({k: v}) and d[k] = v
DictSet(d, k, v) == [x \in DOMAIN d \cup {k} |-> IF x = k THEN v ELSE d[x]]

\* dict.get(k, default)
DictGet(d, k, default) == IF k \in DOMAIN d THEN d[k] ELSE default

EmptyDict == [x \in {} |-> ""]

(***************************************************************************)
(* class SearchParameters                                                  *)
(***************************************************************************)
ListFields == {"categories", "engines", "enabled_plugins", "disabled_plugins",
               "enabled_engines", "disabled_engines"}
StrFields  == {"language", "time_range", "safe_search"}
ArgNames   == ListFields \cup StrFields \cup {"pageno", "image_proxy"}

\* the default values of the keyword arguments of __init__
CtorDefault(f) ==
    IF f \in ListFields THEN PyList(<<>>)
    ELSE IF f \in StrFields THEN PyStr("")
    ELSE IF f = "pageno" THEN PyInt(1)
    ELSE PyBool(TRUE)

\* Keyword arguments of a call are a dict from the names given to their
\* values; a name that is not in the dict was omitted by the caller.

\* SearchParameters.__init__: an omitted argument takes its default, a
\* given one is stored as it is; format is always "json"
SearchParameters_init(args) ==
    [f \in ArgNames \cup {"format"} |->
        IF f = "format" THEN PyStr("json")
        ELSE IF f \in DOMAIN args THEN args[f] ELSE CtorDefault(f)]

\* truth value of a Python value, as tested by "if x:"
Truthy(x) ==
    CASE x.t = "list" -> x.v # <<>>
      [] x.t = "str"  -> x.v # ""
      [] x.t = "int"  -> x.v # 0
      [] x.t = "bool" -> x.v
      [] OTHER        -> FALSE

\* variant of update: "if x:" in place of "if x != None:"
updateTruthy(self, args) ==
    [f \in DOMAIN self |->
        IF f \in ArgNames /\ Truthy(DictGet(args, f, None)) THEN args[f] ELSE self[f]]

\* SearchParameters.update: an omitted argument defaults to None, and every
\* argument that is not None replaces the field
update(self, args) ==
    [f \in DOMAIN self |->
        IF f \in ArgNames /\ DictGet(args, f, None) # None THEN args[f] ELSE self[f]]

\* str(x)
Str(x) ==
    CASE x.t = "int"  -> IntToStr(x.v)
      [] x.t = "bool" -> BoolToStr(x.v)
      [] x.t = "str"  -> x.v
      [] OTHER        -> "None"

AddJoined(d, self, f) ==
    IF Truthy(self[f]) THEN DictSet(d, f, Join(",", self[f].v)) ELSE d

\* variant of AddString: the key is set whether or not the field is empty
AddStringAlways(d, self, f) == DictSet(d, f, self[f].v)

AddString(d, self, f) ==
    IF self[f] # PyStr("") THEN DictSet(d, f, self[f].v) ELSE d

\* variant of as_dict: time_range is serialized like language
as_dictTimeRange(self) ==
    LET d0 == [k \in {"pageno", "format", "image_proxy"} |->
                 IF k = "pageno" THEN Str(self.pageno)
                 ELSE IF k = "format" THEN self.format.v
                 ELSE Str(self.image_proxy)]
        d1 == AddJoined(d0, self, "categories")
        d2 == AddJoined(d1, self, "engines")
        d3 == AddString(d2, self, "language")
        d4 == AddString(d3, self, "time_range")
        d5 == AddString(d4, self, "safe_search")
        d6 == AddJoined(d5, self, "enabled_plugins")
        d7 == AddJoined(d6, self, "disabled_plugins")
        d8 == AddJoined(d7, self, "enabled_engines")
    IN  AddJoined(d8, self, "disabled_engines")

\* SearchParameters.as_dict
as_dict(self) ==
    LET d0 == [k \in {"pageno", "format", "image_proxy"} |->
                 IF k = "pageno" THEN Str(self.pageno)
                 ELSE IF k = "format" THEN self.format.v
                 ELSE Str(self.image_proxy)]
        d1 == AddJoined(d0, self, "categories")
        d2 == AddJoined(d1, self, "engines")
        d3 == AddString(d2, self, "language")
        d4 == AddString(d3, self, "safe_search")
        d5 == AddJoined(d4, self, "enabled_plugins")
        d6 == AddJoined(d5, self, "disabled_plugins")
        d7 == AddJoined(d6, self, "enabled_engines")
    IN  AddJoined(d7, self, "disabled_engines")

(***************************************************************************)
(* Outcome of a call: a returned value or a raised exception.              *)
(***************************************************************************)
Return(v) == [kind |-> "return", value |-> v]
Raise(e)  == [kind |-> "raise", exc |-> e]

(***************************************************************************)
(* float(x)                                                                *)
(***************************************************************************)
DigitChars == {"0", "1", "2", "3", "4", "5", "6", "7", "8", "9"}

DigitVal(c) == CHOOSE d \in 0..9 : Digit(d) = c

Char(s, i) == SubSeq(s, i, i)

AllDigits(s) == Len(s) > 0 /\ \A i \in 1..Len(s) : Char(s, i) \in DigitChars

RECURSIVE StrToNat(_)
StrToNat(s) ==
    IF Len(s) = 0 THEN 0
    ELSE 10 * StrToNat(SubSeq(s, 1, Len(s) - 1)) + DigitVal(Char(s, Len(s)))

\* the decimal literals "ddd" and "ddd.d", with an optional sign; any other
\* string is rejected, as float() rejects a string that is not a number
ParseUnsigned(s) ==
    IF AllDigits(s) THEN Return(PyFloat(10 * StrToNat(s)))
    ELSE IF Len(s) >= 3 /\ Char(s, Len(s) - 1) = "."
            /\ AllDigits(SubSeq(s, 1, Len(s) - 2)) /\ Char(s, Len(s)) \in DigitChars
         THEN Return(PyFloat(10 * StrToNat(SubSeq(s, 1, Len(s) - 2))
                              + DigitVal(Char(s, Len(s)))))
    ELSE Raise("ValueError")

ParseFloat(s) ==
    IF Len(s) > 1 /\ Char(s, 1) = "-"
    THEN LET r == ParseUnsigned(SubSeq(s, 2, Len(s)))
         IN  IF r.kind = "return" THEN Return(PyFloat(0 - r.value.v)) ELSE r
    ELSE ParseUnsigned(s)

Float(x) ==
    CASE x.t = "int"   -> Return(PyFloat(10 * x.v))
      [] x.t = "float" -> Return(x)
      [] x.t = "bool"  -> Return(PyFloat(IF x.v THEN 10 ELSE 0))
      [] x.t = "str"   -> ParseFloat(x.v)
      [] OTHER         -> Raise("TypeError")

(***************************************************************************)
(* class SearchResult and SearXNG.parse_api_json                           *)
(***************************************************************************)
SearchResult(url, title, thumbnail, positions, score) ==
    [url |-> url, title |-> title, thumbnail |-> thumbnail,
     positions |-> positions, score |-> score]

\* variant of PositionsDefault: current_dict.get("positions") with no default
PositionsNone == None

\* the default of current_dict.get("positions", ...)
PositionsDefault == PyStr("")

\* one iteration of the loop of parse_api_json
ParseOne(current_dict) ==
    LET score == Float(DictGet(current_dict, "score", PyInt(0)))
    IN  IF score.kind = "raise" THEN score
        ELSE Return(SearchResult(DictGet(current_dict, "url", PyStr("")),
                                 DictGet(current_dict, "title", PyStr("")),
                                 DictGet(current_dict, "thumbnail", PyStr("")),
                                 DictGet(current_dict, "positions", PositionsDefault),
                                 score.value))

RECURSIVE ParseLoop(_, _)
ParseLoop(assembled_list, rest) ==
    IF rest = <<>> THEN Return(assembled_list)
    ELSE LET r == ParseOne(Head(rest))
         IN  IF r.kind = "raise" THEN r
             ELSE ParseLoop(Append(assembled_list, r.value), Tail(rest))

parse_api_json(json) ==
    IF "results" \notin DOMAIN json THEN Raise("KeyError")
    ELSE ParseLoop(<<>>, json["results"])

(***************************************************************************)
(* State.                                                                  *)
(***************************************************************************)
VARIABLES
    heap,      \* the SearchParameters objects, by identity (index); heap[1] is
               \* the object built once for the default of search_params in
               \* SearXNG.__init__
    clients,   \* the SearXNG objects: endpoint, search_params (an identity)
    pc,        \* where the running search call is: idle, loop, await, done, failed
    frame,     \* arguments and locals of the running search call
    sent,      \* the GET requests the running call has issued, in order
    recv,      \* the responses the running call has received, in order
    ret,       \* outcome of the search call
    snap,      \* history: heap and clients when the running call began
    touched,   \* history: the clients whose search_params.update was called
    last       \* history: the last SearchParameters / parse_api_json call

vars == <<heap, clients, pc, frame, sent, recv, ret, snap, touched, last>>

callVars == <<pc, frame, sent, recv, ret, snap>>

\* identity of the object created by the default "SearchParameters()"
DefaultArg == 1

NoOutcome == [kind |-> "none"]
NoCall    == [op |-> "none"]
NoSnap    == [heap |-> <<>>, clients |-> <<>>]

IdleFrame ==
    [self |-> 0, query |-> "", n_pages |-> 0, arg |-> 0,
     search_params |-> EmptyDict, results |-> <<>>, idx |-> 0,
     again |-> FALSE, prev |-> <<>>]

(***************************************************************************)
(* Inputs.                                                                 *)
(***************************************************************************)
BaseUrls == {"https://search.vtallen.com"}
Queries  == {"xbox series x"}
NPages   == (0 - 1)..MaxPages

\* keyword arguments of the SearchParameters calls of Spec
CtorCalls ==
    { EmptyDict,
      [pageno |-> PyInt(3), categories |-> PyList(<<"news", "it">>)] }

UpdateCalls ==
    { [language |-> PyStr("en"), time_range |-> PyStr("day")],
      [pageno |-> PyInt(10), engines |-> PyList(<<"a", "b">>),
       image_proxy |-> PyBool(FALSE), safe_search |-> None] }

\* JSON objects of the results array
ResA == [url |-> PyStr("http://a"), title |-> PyStr("A"), score |-> PyFloat(15)]
ResB == [url |-> PyStr("http://b")]
ResC == [url |-> PyStr("http://c"), positions |-> PyList(<<"1", "2">>),
         score |-> PyInt(2)]
ResBad == [url |-> PyStr("http://d"), score |-> PyStr("high")]

Bodies ==
    { [results |-> <<ResA, ResB>>], [results |-> <<ResC>>], [results |-> <<>>],
      [results |-> <<ResA, ResBad>>] }

ErrorBody == [error |-> "internal error"]

Responses ==
    [status_code : {200}, json : Bodies] \cup [status_code : {500}, json : {ErrorBody}]

(***************************************************************************)
(* Initial state: the module has been imported, so the default argument of *)
(* SearXNG.__init__ has been evaluated once; no client exists yet.         *)
(***************************************************************************)
Init ==
    /\ heap = <<SearchParameters_init(EmptyDict)>>
    /\ clients = <<>>
    /\ pc = "idle"
    /\ frame = IdleFrame
    /\ sent = <<>>
    /\ recv = <<>>
    /\ ret = NoOutcome
    /\ snap = NoSnap
    /\ touched = {}
    /\ last = NoCall

(***************************************************************************)
(* Calls made by the program that uses the library.                        *)
(***************************************************************************)
\* the SearchParameters objects the caller holds a name for
CallerParams == 2..Len(heap)

\* the caller is between two calls of the library
Idle == pc = "idle" /\ last = NoCall

\* p = SearchParameters(**args)
NewParams(args) ==
    /\ Idle
    /\ Len(heap) < MaxParams
    /\ heap' = Append(heap, SearchParameters_init(args))
    /\ UNCHANGED <<clients, callVars, touched, last>>

\* SearXNG.__init__(base_url, search_params); sp = 0 when search_params is
\* omitted, and then the one default object is stored
NewClient(base_url, sp) ==
    /\ Idle
    /\ Len(clients) < MaxClients
    /\ clients' = Append(clients,
                     [endpoint |-> base_url \o "/search",
                      search_params |-> IF sp = 0 THEN DefaultArg ELSE sp,
                      defaulted |-> (sp = 0)])
    /\ UNCHANGED <<heap, callVars, touched, last>>

\* p.update(**args) on an object the caller constructed
UpdateParams(o, args) ==
    /\ Idle
    /\ o \in CallerParams
    /\ heap' = [heap EXCEPT ![o] = update(heap[o], args)]
    /\ last' = [op |-> "update", obj |-> o, args |-> args]
    /\ UNCHANGED <<clients, callVars, touched>>

\* api.search_params.update(**args) on the stored configuration of a client
UpdateClientParams(c, args) ==
    /\ Idle
    /\ c \in 1..Len(clients)
    /\ LET o == clients[c].search_params
       IN  /\ heap' = [heap EXCEPT ![o] = update(heap[o], args)]
           /\ last' = [op |-> "update", obj |-> o, args |-> args]
    /\ touched' = touched \cup {c}
    /\ UNCHANGED <<clients, callVars>>

(***************************************************************************)
(* SearXNG.search, one action per step of the pagination loop.             *)
(***************************************************************************)
\* the configuration a call serializes: the argument, or the stored default
Effective(c, sp) == IF sp = 0 THEN heap[clients[c].search_params] ELSE heap[sp]

\* entry of search up to the loop: serialize once, then inject q
SearchEntry(c, query, n_pages, sp, again, prev) ==
    /\ frame' = [self |-> c, query |-> query, n_pages |-> n_pages, arg |-> sp,
                 search_params |-> DictSet(as_dict(Effective(c, sp)), "q", query),
                 results |-> <<>>, idx |-> 0, again |-> again, prev |-> prev]
    /\ sent' = <<>>
    /\ recv' = <<>>
    /\ ret' = NoOutcome
    /\ snap' = [heap |-> heap, clients |-> clients]
    /\ pc' = "loop"
    /\ UNCHANGED <<heap, clients, touched, last>>

\* api.search(query, n_pages, search_params); sp = 0 when it is None
SearchCall(c, query, n_pages, sp) ==
    /\ Idle
    /\ c \in 1..Len(clients)
    /\ sp \in {0} \cup CallerParams
    /\ SearchEntry(c, query, n_pages, sp, FALSE, <<>>)

\* the caller repeats the call that has just returned, with the same arguments
SearchAgain ==
    /\ pc = "done"
    /\ ~frame.again
    /\ SearchEntry(frame.self, frame.query, frame.n_pages, frame.arg, TRUE, sent)

\* variant of HasNext: the body runs once before the bound is tested
HasNextDoWhile(idx, n_pages) == idx < n_pages \/ idx = 0

\* "for idx in range(1, n_pages + 1)": after index idx (0 before the first)
\* the range has a next index
HasNext(idx, n_pages) == idx < n_pages

\* variant of PageParam: pages counted from 0
PageParamFromZero(idx) == IntToStr(idx - 1)

\* the value written to search_params["pageno"] for index idx
PageParam(idx) == IntToStr(idx)

\* variant of StatusOk: the status is not checked
StatusUnchecked(status_code) == TRUE

\* "response.status_code != 200" raises
StatusOk(status_code) == status_code = 200

\* variant of Extend: the page is put in front of the earlier pages
ExtendFront(results, page) == page \o results

\* results.extend(page)
Extend(results, page) == results \o page

\* variant of SendRequest: pageno is also stored in the configuration object
SendRequestWriteBack ==
    /\ pc = "loop"
    /\ HasNext(frame.idx, frame.n_pages)
    /\ LET idx == frame.idx + 1
           params == DictSet(frame.search_params, "pageno", PageParam(idx))
           o == IF frame.arg = 0 THEN clients[frame.self].search_params ELSE frame.arg
       IN  /\ frame' = [frame EXCEPT !.idx = idx, !.search_params = params]
           /\ sent' = Append(sent, [url |-> clients[frame.self].endpoint,
                                    params |-> params])
           /\ heap' = [heap EXCEPT ![o].pageno = PyInt(idx)]
    /\ pc' = "await"
    /\ UNCHANGED <<clients, recv, ret, snap, touched, last>>

\* the loop takes its next index, overwrites pageno and issues the GET
SendRequest ==
    /\ pc = "loop"
    /\ HasNext(frame.idx, frame.n_pages)
    /\ LET idx == frame.idx + 1
           params == DictSet(frame.search_params, "pageno", PageParam(idx))
       IN  /\ frame' = [frame EXCEPT !.idx = idx, !.search_params = params]
           /\ sent' = Append(sent, [url |-> clients[frame.self].endpoint,
                                    params |-> params])
    /\ pc' = "await"
    /\ UNCHANGED <<heap, clients, recv, ret, snap, touched, last>>

\* requests.get returns: the status is checked and the body parsed
ReceiveResponse(response) ==
    /\ pc = "await"
    /\ recv' = Append(recv, response)
    /\ IF ~StatusOk(response.status_code)
       THEN /\ ret' = Raise("ValueError")
            /\ pc' = "failed"
            /\ UNCHANGED frame
       ELSE LET parsed == parse_api_json(response.json)
            IN  IF parsed.kind = "raise"
                THEN /\ ret' = parsed
                     /\ pc' = "failed"
                     /\ UNCHANGED frame
                ELSE /\ frame' = [frame EXCEPT !.results = Extend(frame.results, parsed.value)]
                     /\ pc' = "loop"
                     /\ UNCHANGED ret
    /\ UNCHANGED <<heap, clients, sent, snap, touched, last>>

\* requests.get raises instead of returning a response
TransportError ==
    /\ pc = "await"
    /\ ret' = Raise("ConnectionError")
    /\ pc' = "failed"
    /\ UNCHANGED <<heap, clients, frame, sent, recv, snap, touched, last>>

\* the range is exhausted: return results
SearchReturn ==
    /\ pc = "loop"
    /\ ~HasNext(frame.idx, frame.n_pages)
    /\ ret' = Return(frame.results)
    /\ pc' = "done"
    /\ UNCHANGED <<heap, clients, frame, sent, recv, snap, touched, last>>

\* the caller has taken the outcome and goes on
Finish ==
    /\ pc \in {"done", "failed"}
    /\ pc' = "idle"
    /\ frame' = IdleFrame
    /\ sent' = <<>>
    /\ recv' = <<>>
    /\ ret' = NoOutcome
    /\ snap' = NoSnap
    /\ UNCHANGED <<heap, clients, touched, last>>

\* the SearchParameters or parse_api_json call has returned to the caller
Resume ==
    /\ pc = "idle"
    /\ last # NoCall
    /\ last' = NoCall
    /\ UNCHANGED <<heap, clients, callVars, touched>>

\* the caller serializes an object it holds: p.as_dict()
AsDictCall(o) ==
    /\ Idle
    /\ o \in CallerParams
    /\ last' = [op |-> "as_dict", obj |-> o, ret |-> as_dict(heap[o])]
    /\ UNCHANGED <<heap, clients, callVars, touched>>

\* the caller parses a body itself: api.parse_api_json(json)
ParseCall(json) ==
    /\ Idle
    /\ last' = [op |-> "parse_api_json", json |-> json, ret |-> parse_api_json(json)]
    /\ UNCHANGED <<heap, clients, callVars, touched>>

Next ==
    \/ \E args \in CtorCalls : NewParams(args)
    \/ \E b \in BaseUrls, sp \in {0} \cup CallerParams : NewClient(b, sp)
    \/ \E o \in CallerParams, args \in UpdateCalls : UpdateParams(o, args)
    \/ \E c \in 1..Len(clients), args \in UpdateCalls : UpdateClientParams(c, args)
    \/ \E c \in 1..Len(clients), q \in Queries, n \in NPages,
          sp \in {0} \cup CallerParams : SearchCall(c, q, n, sp)
    \/ SendRequest
    \/ \E response \in Responses : ReceiveResponse(response)
    \/ TransportError
    \/ SearchReturn
    \/ Finish
    \/ \E o \in CallerParams : AsDictCall(o)
    \/ \E json \in Bodies \cup {ErrorBody} : ParseCall(json)
    \/ Resume

Spec == Init /\ [][Next]_vars

(***************************************************************************)
(* SpecSearch: the pagination loop of search.  The initial states are the  *)
(* states reached by constructing one SearchParameters object, updating it *)
(* and the default object, and constructing one client that stores either. *)
(***************************************************************************)
MaybeUpdated(p) == {p} \cup {update(p, u) : u \in UpdateCalls}

InitSearch ==
    /\ \E d \in MaybeUpdated(SearchParameters_init(EmptyDict)),
          a \in CtorCalls :
          \E p \in MaybeUpdated(SearchParameters_init(a)) : heap = <<d, p>>
    /\ \E b \in BaseUrls, sp \in {0, 2} :
          clients = <<[endpoint |-> b \o "/search",
                       search_params |-> IF sp = 0 THEN DefaultArg ELSE sp,
                       defaulted |-> (sp = 0)]>>
    /\ pc = "idle"
    /\ frame = IdleFrame
    /\ sent = <<>>
    /\ recv = <<>>
    /\ ret = NoOutcome
    /\ snap = NoSnap
    /\ touched = {}
    /\ last = NoCall

NextSearch ==
    \/ \E c \in 1..Len(clients), q \in Queries, n \in NPages,
          sp \in {0} \cup CallerParams : SearchCall(c, q, n, sp)
    \/ SearchAgain
    \/ SendRequest
    \/ \E response \in Responses : ReceiveResponse(response)
    \/ TransportError
    \/ SearchReturn
    \/ Finish

SpecSearch == InitSearch /\ [][NextSearch]_vars

(***************************************************************************)
(* SpecParams: one SearchParameters object under constructor, update and   *)
(* as_dict calls with every combination of at most MaxArgs arguments.      *)
(***************************************************************************)
\* values of the documented type of each argument: a falsy and a truthy one
ArgValues(f) ==
    IF f \in ListFields THEN {PyList(<<>>), PyList(<<"a", "b">>)}
    ELSE IF f \in StrFields THEN {PyStr(""), PyStr("en")}
    ELSE IF f = "pageno" THEN {PyInt(0), PyInt(12)}
    ELSE {PyBool(FALSE), PyBool(TRUE)}

AllArgValues == UNION {ArgValues(f) : f \in ArgNames} \cup {None}

ArgKeySets == {K \in SUBSET ArgNames : Cardinality(K) <= MaxArgs}

\* constructor calls: each given argument has a value of its type
CtorArgSets ==
    UNION {{a \in [K -> AllArgValues] : \A f \in K : a[f] \in ArgValues(f)}
           : K \in ArgKeySets}

\* update calls: a given argument may also be None
UpdateArgSets ==
    UNION {{a \in [K -> AllArgValues] : \A f \in K : a[f] \in ArgValues(f) \cup {None}}
           : K \in ArgKeySets}

InitParams ==
    /\ \E a \in CtorArgSets :
          heap = <<SearchParameters_init(EmptyDict), SearchParameters_init(a)>>
    /\ last = NoCall
    /\ clients = <<>>
    /\ pc = "idle"
    /\ frame = IdleFrame
    /\ sent = <<>>
    /\ recv = <<>>
    /\ ret = NoOutcome
    /\ snap = NoSnap
    /\ touched = {}

NextParams ==
    \/ Idle /\ \E o \in CallerParams, args \in UpdateArgSets : UpdateParams(o, args)
    \/ \E o \in CallerParams : AsDictCall(o)
    \/ Resume

SpecParams == InitParams /\ [][NextParams]_vars

(***************************************************************************)
(* SpecParse: parse_api_json on bodies whose results array has at most     *)
(* MaxResults objects, the first with any subset of the five fields.       *)
(***************************************************************************)
Absent == [t |-> "absent"]

Present(d) == [k \in {k \in DOMAIN d : d[k] # Absent} |-> d[k]]

ResultDicts ==
    {Present(d) : d \in
        [url : {Absent, PyStr("http://a")},
         title : {Absent, PyStr("A")},
         thumbnail : {Absent, PyStr("http://t")},
         positions : {Absent, PyList(<<>>), PyList(<<"1", "2">>)},
         score : {Absent, PyInt(2), PyFloat(15), PyStr("2.5"), PyStr("high")}]}

\* the arrays: any object first, then objects that parse (ResB, ResC) or
\* that make float() raise (ResBad)
TailArrays == UNION {[1..n -> {ResB, ResC, ResBad}] : n \in 0..(MaxResults - 1)}

ResultArrays == {<<>>} \cup {<<d>> \o tail : d \in ResultDicts, tail \in TailArrays}

ParseInputs == {[results |-> r] : r \in ResultArrays} \cup {ErrorBody}

InitParse ==
    /\ heap = <<SearchParameters_init(EmptyDict)>>
    /\ \E b \in BaseUrls :
          clients = <<[endpoint |-> b \o "/search", search_params |-> DefaultArg,
                       defaulted |-> TRUE]>>
    /\ pc = "idle"
    /\ frame = IdleFrame
    /\ sent = <<>>
    /\ recv = <<>>
    /\ ret = NoOutcome
    /\ snap = NoSnap
    /\ touched = {}
    /\ last = NoCall

NextParse ==
    \/ Idle /\ \E json \in ParseInputs : ParseCall(json)
    \/ Resume

SpecParse == InitParse /\ [][NextParse]_vars

(***************************************************************************)
(* Properties.                                                             *)
(***************************************************************************)
Min(a, b) == IF a < b THEN a ELSE b
Max(a, b) == IF a < b THEN b ELSE a

\* the results arrays of the pages received so far, one after the other
RECURSIVE Flatten(_)
Flatten(pages) ==
    IF pages = <<>> THEN <<>> ELSE Head(pages).json["results"] \o Flatten(Tail(pages))

\* a body parse_api_json accepts
WellFormed(json) ==
    /\ "results" \in DOMAIN json
    /\ \A j \in 1..Len(json["results"]) :
          Float(DictGet(json["results"][j], "score", PyInt(0))).kind = "return"

\* the configuration the running call serializes
EffectiveCfg == Effective(frame.self, frame.arg)

\* the query string of the i-th request of the running call, for the
\* serialized mapping of a configuration
RequestParams(mapping, i) ==
    DictSet(DictSet(mapping, "q", frame.query), "pageno", IntToStr(i))

DefaultMapping == [pageno |-> "1", format |-> "json", image_proxy |-> "True"]

\* C1: when every one of the n_pages >= 1 responses has status 200 (and a
\* body that parses), search returns the records of page 1, then page 2, ...,
\* each page in the order of its results array, none dropped or duplicated
C1_Concatenation ==
    ( /\ pc \in {"done", "failed"}
      /\ frame.n_pages >= 1
      /\ Len(recv) = frame.n_pages
      /\ \A i \in 1..Len(recv) : recv[i].status_code = 200 /\ WellFormed(recv[i].json) )
    => /\ pc = "done"
       /\ ret.kind = "return"
       /\ LET src == Flatten(recv)
          IN  /\ Len(ret.value) = Len(src)
              /\ \A k \in 1..Len(src) : ret.value[k] = ParseOne(src[k]).value

C1_Witness ==
    /\ pc = "done"
    /\ frame.n_pages = 2
    /\ recv = <<[status_code |-> 200, json |-> [results |-> <<ResA, ResB>>]],
                [status_code |-> 200, json |-> [results |-> <<ResC>>]]>>
    /\ Len(ret.value) = 3
    /\ ret.value[1].url = PyStr("http://a")
    /\ ret.value[2].url = PyStr("http://b")
    /\ ret.value[3].url = PyStr("http://c")

\* C2: a response for page k with a status other than 200 ends the call in
\* failure at page k: ValueError is raised and no list is returned, page k is
\* the last page requested and every page was requested once
C2_FailFast ==
    \A k \in 1..Len(recv) :
        recv[k].status_code # 200
        => /\ k = Len(recv)
           /\ pc = "failed"
           /\ ret = Raise("ValueError")
           /\ Len(sent) = k
           /\ \A i \in 1..k : sent[i].params["pageno"] = IntToStr(i)

C2_Witness ==
    /\ pc = "failed"
    /\ frame.n_pages = 3
    /\ Len(recv) = 2
    /\ recv[1] = [status_code |-> 200, json |-> [results |-> <<ResA, ResB>>]]
    /\ recv[2].status_code = 500
    /\ Len(frame.results) = 2
    /\ ret = Raise("ValueError")
    /\ Len(sent) = 2

\* C3: the requests of a call are issued one at a time, request i + 1 only
\* after response i was received and parsed; a call that returns has issued
\* exactly n_pages of them; the i-th goes to the endpoint with pageno = str(i),
\* q = query and the other serialized parameters of the configuration
C3_Requests ==
    pc # "idle"
    => /\ Len(sent) <= Max(frame.n_pages, 0)
       /\ Len(recv) <= Len(sent)
       /\ Len(sent) <= Len(recv) + 1
       /\ pc = "loop" => Len(sent) = Len(recv)
       /\ pc = "await" => Len(sent) = Len(recv) + 1
       /\ pc = "done" => Len(sent) = Max(frame.n_pages, 0) /\ Len(recv) = Len(sent)
       /\ LET mapping == as_dict(EffectiveCfg)
          IN  \A i \in 1..Len(sent) :
                 /\ sent[i].url = clients[frame.self].endpoint
                 /\ sent[i].params = RequestParams(mapping, i)
                 /\ sent[i].params["q"] = frame.query
                 /\ \A k \in DOMAIN mapping \ {"pageno"} :
                       sent[i].params[k] = mapping[k]

C3_Witness ==
    /\ pc = "done"
    /\ frame.n_pages = 3
    /\ Len(sent) = 3
    /\ as_dict(EffectiveCfg)["pageno"] = "10"
    /\ sent[1].params["pageno"] = "1"
    /\ sent[2].params["pageno"] = "2"
    /\ sent[3].params["pageno"] = "3"
    /\ sent[3].params["q"] = "xbox series x"
    /\ sent[3].params["engines"] = "a,b"

\* an empty Python sequence: the empty list or the empty str
EmptySequence(x) == x.t \in {"str", "list"} /\ Len(x.v) = 0

\* out is the float with the value of the JSON score in
SameNumber(in, out) ==
    CASE in.t = "int"   -> out = PyFloat(10 * in.v)
      [] in.t = "float" -> out = in
      [] in = PyStr("2.5") -> out = PyFloat(25)
      [] OTHER          -> FALSE

Serialized == (ListFields \cup StrFields) \ {"time_range"}

NonEmpty(x) == IF x.t = "list" THEN x.v # <<>> ELSE x.v # ""

Decimal(n) ==
    CASE n = 0 -> "0" [] n = 1 -> "1" [] n = 3 -> "3" [] n = 10 -> "10"
      [] n = 12 -> "12"

CommaJoined(l) ==
    CASE Len(l) = 1 -> l[1]
      [] Len(l) = 2 -> l[1] \o "," \o l[2]

\* C5: as_dict returns exactly the keys pageno, format, image_proxy and one
\* key per non-empty field among the eight serialized ones; pageno is the
\* decimal string, format "json", image_proxy "True"/"False", a list its
\* elements joined by commas; the default configuration gives DefaultMapping
C5_AsDict ==
    last.op = "as_dict"
    => LET self == heap[last.obj]
           d == last.ret
       IN  /\ DOMAIN d = {"pageno", "format", "image_proxy"}
                            \cup {f \in Serialized : NonEmpty(self[f])}
           /\ d["pageno"] = Decimal(self.pageno.v)
           /\ d["format"] = "json"
           /\ d["image_proxy"] = IF self.image_proxy.v THEN "True" ELSE "False"
           /\ \A f \in Serialized \cap DOMAIN d :
                 d[f] = IF f \in ListFields THEN CommaJoined(self[f].v) ELSE self[f].v
           /\ self = SearchParameters_init(EmptyDict) => d = DefaultMapping
           /\ self.engines = PyList(<<"a", "b">>) => d["engines"] = "a,b"

C5_Witness ==
    /\ last.op = "as_dict"
    /\ heap[last.obj].categories = PyList(<<>>)
    /\ heap[last.obj].language = PyStr("")
    /\ last.ret = [pageno |-> "12", format |-> "json", image_proxy |-> "False",
                   engines |-> "a,b"]

\* C6: an update call sets every field whose argument is given and not None
\* (a falsy value included) and leaves every other field, format included,
\* and every other object as it was
C6_PartialMerge ==
    [][ last'.op = "update"
        => LET o == last'.obj
               args == last'.args
           IN  /\ Len(heap') = Len(heap)
               /\ \A f \in ArgNames \cup {"format"} :
                     heap'[o][f] = IF f \in DOMAIN args /\ args[f] # None
                                   THEN args[f] ELSE heap[o][f]
               /\ heap'[o].format = PyStr("json")
               /\ \A p \in 1..Len(heap) : p # o => heap'[p] = heap[p] ]_vars

C6_Witness ==
    /\ last.op = "update"
    /\ last.args = [image_proxy |-> PyBool(FALSE)]
    /\ heap[last.obj].image_proxy = PyBool(FALSE)
    /\ heap[last.obj].engines = PyList(<<"a", "b">>)
    /\ heap[last.obj].language = PyStr("en")
    /\ heap[last.obj].pageno = PyInt(12)

\* C7: a client constructed without search_params, through which no update
\* was made, serializes to the default mapping whatever updates were made
\* through other clients, before or after it was constructed
C7_FreshDefaults ==
    \A c \in 1..Len(clients) :
        (clients[c].defaulted /\ c \notin touched)
        => as_dict(heap[clients[c].search_params]) = DefaultMapping

\* C8: a search call, whether running, returned or failed, has changed no
\* field of any SearchParameters object and no client; and the requests of a
\* call that repeats the previous one are the requests of the previous one
C8_SearchFrame ==
    pc # "idle"
    => /\ heap = snap.heap
       /\ clients = snap.clients
       /\ \A o \in 1..Len(heap) : as_dict(heap[o]) = as_dict(snap.heap[o])
       /\ frame.again
          => /\ \A i \in 1..Min(Len(sent), Len(frame.prev)) : sent[i] = frame.prev[i]
             /\ (pc = "done" /\ Len(frame.prev) = Len(sent)) => sent = frame.prev

C8_Witness ==
    /\ pc = "done"
    /\ frame.again
    /\ frame.arg = 2
    /\ frame.n_pages = 2
    /\ Len(sent) = 2
    /\ sent = frame.prev
    /\ heap[2].pageno = PyInt(3)
    /\ heap = snap.heap

\* a time_range that no configuration of the model holds
TimeRanges == {"year"}

C10_NoPages ==
    (pc # "idle" /\ frame.n_pages <= 0)
    => /\ sent = <<>>
       /\ recv = <<>>
       /\ pc \in {"loop", "done"}
       /\ pc = "loop" => ret = NoOutcome
       /\ pc = "done" => ret = Return(<<>>)

C10_Witness ==
    /\ pc = "done"
    /\ frame.n_pages = 0 - 1
    /\ sent = <<>>
    /\ ret = Return(<<>>)

====
